---- MODULE Spec2Model ----
(***************************************************************************)
(* The scanner of rlox (src/src/scanner.rs) as a state machine.            *)
(*                                                                         *)
(* A source text is a sequence of characters; a character is a string.     *)
(* Rust's String is UTF-8: `source.len()` and `source[a..b]` count bytes,  *)
(* `source.chars().nth(n)` counts characters.  The model keeps both        *)
(* measures, so the two agree on ASCII text only.                          *)
(* A panic (an `unwrap` of None, a slice off a character boundary) takes   *)
(* the scan to pc = "panic", from which nothing is returned.               *)
(*                                                                         *)
(* The scanner's caller is modelled beside it: a caller that calls         *)
(* scan_tokens again on the same Scanner (calls), and the host Lox of      *)
(* src/src/lox.rs (had_error, the position host_pc in run_file, run_prompt *)
(* and run, the index tok of the token loop of run, and the lines written  *)
(* to standard error).                                                     *)
(***************************************************************************)
EXTENDS Naturals, Sequences, FiniteSets, TLC

VARIABLES source, tokens, start, current, line, pc, spans,
          calls, had_error, host_pc, tok, stderr, entered, nlines

\* The state outside the Scanner: no step of the scan touches it.
caller == <<calls, had_error, host_pc, tok, stderr, entered, nlines>>

vars == <<source, tokens, start, current, line, pc, spans, caller>>

(***************************************************************************)
(* Bounds and the source texts the scan is started on.                     *)
(***************************************************************************)
MaxLen == 4

\* A character encoded in two bytes (e-acute).
NonAscii == "U+00E9"

\* One representative of every class scan_token distinguishes.
MixedChars == {"(", "/", "\"", "\n", "1", "o", "@", " ", NonAscii}
\* The one/two-character operators.
OperatorChars == {"!", "=", "<", ">", "(", "/"}
\* Number literals.
NumberChars == {"0", "1", ".", "-", "a", " "}
\* Identifiers and reserved words (or, if, for are spelled from these).
WordChars == {"o", "r", "i", "f", "O", "_", "1", " "}
\* String literals and comments.
StringChars == {"\"", "\n", "\\", "a", "/", "\t", "\r"}

Texts(chars, n) == UNION {[1..k -> chars] : k \in 0..n}

Sources ==
    Texts(MixedChars, MaxLen) \cup Texts(OperatorChars, MaxLen)
        \cup Texts(NumberChars, MaxLen) \cup Texts(WordChars, MaxLen)
        \cup Texts(StringChars, MaxLen)

(***************************************************************************)
(* Strings: bytes and characters.                                          *)
(***************************************************************************)
\* The number of bytes of a character's UTF-8 encoding.
len_utf8(c) == IF c = NonAscii THEN 2 ELSE 1

\* String::len: the length in bytes.
RECURSIVE len(_)
len(s) == IF s = <<>> THEN 0 ELSE len_utf8(Head(s)) + len(Tail(s))

\* Option::None, the sentinel '\0', and the outcome of a panicking call.
None == "None"
NUL == "\\0"
PANIC == "panic!"

\* source.chars().nth(n): the n-th character, counted from 0, or None.
chars_nth(s, n) == IF n < Len(s) THEN s[n + 1] ELSE None

\* Option::unwrap.
unwrap(x) == IF x = None THEN PANIC ELSE x

\* The byte offset at which the i-th character (from 0) starts.
byte_offset(s, i) == len(SubSeq(s, 1, i))

is_char_boundary(s, b) == \E i \in 0..Len(s) : byte_offset(s, i) = b

char_index(s, b) == CHOOSE i \in 0..Len(s) : byte_offset(s, i) = b

\* source[a..b]: the characters of bytes a..b-1; it panics unless a <= b and
\* both are character boundaries (which puts b within the string).
slice(s, a, b) ==
    IF a <= b /\ is_char_boundary(s, a) /\ is_char_boundary(s, b)
    THEN [ok |-> TRUE, text |-> SubSeq(s, char_index(s, a) + 1, char_index(s, b))]
    ELSE [ok |-> FALSE, text |-> <<>>]

(***************************************************************************)
(* Character classes.                                                      *)
(***************************************************************************)
LowerCase ==
    {"a", "b", "c", "d", "e", "f", "g", "h", "i", "j", "k", "l", "m",
     "n", "o", "p", "q", "r", "s", "t", "u", "v", "w", "x", "y", "z"}

UpperCase ==
    {"A", "B", "C", "D", "E", "F", "G", "H", "I", "J", "K", "L", "M",
     "N", "O", "P", "Q", "R", "S", "T", "U", "V", "W", "X", "Y", "Z"}

Digits == {"0", "1", "2", "3", "4", "5", "6", "7", "8", "9"}

is_alpha_FromAt(c) == c \in LowerCase \/ c \in UpperCase \/ c = "_" \/ c = "@"

is_alpha(c) == c \in LowerCase \/ c \in UpperCase \/ c = "_"

is_digit(c) == c \in Digits

is_alpha_numeric(c) == is_alpha(c) \/ is_digit(c)

(***************************************************************************)
(* Tokens.                                                                 *)
(***************************************************************************)
Token(token_type, lexeme, literal, ln) ==
    [token_type |-> token_type, lexeme |-> lexeme, literal |-> literal, line |-> ln]

LiteralNone == [kind |-> "None"]
LiteralString(value) == [kind |-> "String", str |-> value]
LiteralNumber(value) == [kind |-> "Number", num |-> value]

\* The reserved words, as Scanner::new inserts them.
keywords ==
    { <<<<"a", "n", "d">>, "And">>,
      <<<<"c", "l", "a", "s", "s">>, "Class">>,
      <<<<"e", "l", "s", "e">>, "Else">>,
      <<<<"f", "a", "l", "s", "e">>, "False">>,
      <<<<"f", "o", "r">>, "For">>,
      <<<<"f", "u", "n">>, "Fun">>,
      <<<<"i", "f">>, "If">>,
      <<<<"n", "i", "l">>, "Nil">>,
      <<<<"o", "r">>, "Or">>,
      <<<<"p", "r", "i", "n", "t">>, "Print">>,
      <<<<"r", "e", "t", "u", "r", "n">>, "Return">>,
      <<<<"s", "u", "p", "e", "r">>, "Super">>,
      <<<<"t", "h", "i", "s">>, "This">>,
      <<<<"t", "r", "u", "e">>, "True">>,
      <<<<"v", "a", "r">>, "Var">>,
      <<<<"w", "h", "i", "l", "e">>, "While">> }

IsPrefix(p, s) == Len(p) <= Len(s) /\ SubSeq(s, 1, Len(p)) = p

keywords_get_Prefix(text) ==
    IF \E kw \in keywords : IsPrefix(kw[1], text)
    THEN (CHOOSE kw \in keywords : IsPrefix(kw[1], text))[2]
    ELSE "Identifier"

\* keywords.get(&text).unwrap_or(&TokenType::Identifier)
keywords_get(text) ==
    IF \E kw \in keywords : kw[1] = text
    THEN (CHOOSE kw \in keywords : kw[1] = text)[2]
    ELSE "Identifier"

\* The characters scan_token maps to a token kind without lookahead.
single_type(c) ==
    CASE c = "(" -> "LeftParen"
      [] c = ")" -> "RightParen"
      [] c = "{" -> "LeftBrace"
      [] c = "}" -> "RightBrace"
      [] c = "," -> "Comma"
      [] c = "." -> "Dot"
      [] c = "-" -> "Minus"
      [] c = "+" -> "Plus"
      [] c = ";" -> "Semicolon"
      [] c = "*" -> "Star"

SingleChars == {"(", ")", "{", "}", ",", ".", "-", "+", ";", "*"}

\* The kinds of ! = < > alone and followed by =.
one_char_type(c) ==
    CASE c = "!" -> "Bang"
      [] c = "=" -> "Equal"
      [] c = "<" -> "Less"
      [] c = ">" -> "Greater"

two_char_type(c) ==
    CASE c = "!" -> "BangEqual"
      [] c = "=" -> "EqualEqual"
      [] c = "<" -> "LessEqual"
      [] c = ">" -> "GreaterEqual"

EqualChars == {"!", "=", "<", ">"}

(***************************************************************************)
(* The value of a number literal: str::parse::<f64> of digits with an      *)
(* optional fraction.  The value m / 10^e is kept in lowest decimal terms, *)
(* which names one f64 for the short literals scanned here.                *)
(***************************************************************************)
digit_value(c) ==
    CASE c = "0" -> 0 [] c = "1" -> 1 [] c = "2" -> 2 [] c = "3" -> 3
      [] c = "4" -> 4 [] c = "5" -> 5 [] c = "6" -> 6 [] c = "7" -> 7
      [] c = "8" -> 8 [] c = "9" -> 9

RECURSIVE digits_value(_)
digits_value(ds) ==
    IF ds = <<>> THEN 0
    ELSE 10 * digits_value(SubSeq(ds, 1, Len(ds) - 1)) + digit_value(ds[Len(ds)])

RECURSIVE normalise(_, _)
normalise(m, e) ==
    IF e > 0 /\ m % 10 = 0 THEN normalise(m \div 10, e - 1)
    ELSE [mantissa |-> m, exponent |-> e]

parse_f64(text) ==
    LET dots == {i \in 1..Len(text) : text[i] = "."}
        dot == IF dots = {} THEN Len(text) + 1 ELSE CHOOSE i \in dots : TRUE
        int == SubSeq(text, 1, dot - 1)
        frac == SubSeq(text, dot + 1, Len(text))
    IN  normalise(digits_value(int \o frac), Len(frac))

(***************************************************************************)
(* The cursor primitives.                                                  *)
(***************************************************************************)
is_at_end(s, cur) == cur >= len(s)

\* advance: the character at the cursor, and the cursor moved past it.
advance(s, cur) ==
    LET c == unwrap(chars_nth(s, cur))
    IN  [panic |-> c = PANIC, c |-> c, current |-> IF c = PANIC THEN cur ELSE cur + 1]

match_char_Always(s, cur, expected) ==
    [panic |-> FALSE, is_match |-> ~is_at_end(s, cur),
     current |-> IF is_at_end(s, cur) THEN cur ELSE cur + 1]

\* match_char: consume the character at the cursor when it is `expected`.
match_char(s, cur, expected) ==
    IF is_at_end(s, cur)
    THEN [panic |-> FALSE, is_match |-> FALSE, current |-> cur]
    ELSE LET c == unwrap(chars_nth(s, cur))
         IN  IF c = PANIC THEN [panic |-> TRUE, is_match |-> FALSE, current |-> cur]
             ELSE IF c # expected
                  THEN [panic |-> FALSE, is_match |-> FALSE, current |-> cur]
                  ELSE [panic |-> FALSE, is_match |-> TRUE, current |-> cur + 1]

peek(s, cur) == IF is_at_end(s, cur) THEN NUL ELSE unwrap(chars_nth(s, cur))

peek_next_AtCursor(s, cur) == peek(s, cur)

peek_next(s, cur) ==
    IF cur + 1 >= len(s) THEN NUL ELSE unwrap(chars_nth(s, cur + 1))

(***************************************************************************)
(* The scan.                                                               *)
(***************************************************************************)
\* Scanner::new.
\* No host: the Scanner is driven directly.
NoHost ==
    /\ had_error = FALSE
    /\ host_pc = "none"
    /\ tok = 0
    /\ stderr = <<>>
    /\ entered = [by |-> "none", had_error |-> FALSE, stderr |-> 0]
    /\ nlines = 0

Init ==
    /\ source \in Sources
    /\ tokens = <<>>
    /\ start = 0
    /\ current = 0
    /\ line = 1
    /\ pc = "scan_tokens"
    /\ spans = <<>>
    /\ calls = 1
    /\ NoHost

panic ==
    /\ pc' = "panic"
    /\ UNCHANGED <<caller, source, tokens, start, current, line, spans>>

\* add_token_with_literal with the cursor at cur; spans records the byte
\* range start..cur the lexeme is sliced from.
add_token_with_literal(token_type, literal, cur) ==
    LET text == slice(source, start, cur)
    IN  IF ~text.ok THEN panic
        ELSE /\ tokens' = Append(tokens, Token(token_type, text.text, literal, line))
             /\ spans' = Append(spans, <<start, cur>>)
             /\ current' = cur
             /\ pc' = "scan_tokens"
             /\ UNCHANGED <<caller, source, start, line>>

add_token_WithText(token_type, cur) ==
    add_token_with_literal(token_type, LiteralString(<<>>), cur)

add_token(token_type, cur) == add_token_with_literal(token_type, LiteralNone, cur)

scan_tokens_loop_KeepStart ==
    /\ pc = "scan_tokens"
    /\ ~is_at_end(source, current)
    /\ pc' = "scan_token"
    /\ UNCHANGED <<caller, source, tokens, start, current, line, spans>>

scan_tokens_loop_StartPastCursor ==
    /\ pc = "scan_tokens"
    /\ ~is_at_end(source, current)
    /\ start' = current + 1
    /\ pc' = "scan_token"
    /\ UNCHANGED <<caller, source, tokens, current, line, spans>>

\* scan_tokens, one turn of the while loop up to the call of scan_token.
scan_tokens_loop ==
    /\ pc = "scan_tokens"
    /\ ~is_at_end(source, current)
    /\ start' = current
    /\ pc' = "scan_token"
    /\ UNCHANGED <<caller, source, tokens, current, line, spans>>

scan_tokens_eof_NoPush ==
    /\ pc = "scan_tokens"
    /\ is_at_end(source, current)
    /\ pc' = "done"
    /\ UNCHANGED <<caller, source, tokens, start, current, line, spans>>

scan_tokens_eof_Line1 ==
    /\ pc = "scan_tokens"
    /\ is_at_end(source, current)
    /\ tokens' = Append(tokens, Token("Eof", <<>>, LiteralNone, 1))
    /\ pc' = "done"
    /\ UNCHANGED <<caller, source, start, current, line, spans>>

scan_tokens_eof_OnlyOnce ==
    /\ pc = "scan_tokens"
    /\ is_at_end(source, current)
    /\ tokens' = IF tokens # <<>> /\ tokens[Len(tokens)].token_type = "Eof"
                  THEN tokens
                  ELSE Append(tokens, Token("Eof", <<>>, LiteralNone, line))
    /\ pc' = "done"
    /\ UNCHANGED <<caller, source, start, current, line, spans>>

\* scan_tokens after the loop: the Eof token is pushed and the tokens returned.
scan_tokens_eof ==
    /\ pc = "scan_tokens"
    /\ is_at_end(source, current)
    /\ tokens' = Append(tokens, Token("Eof", <<>>, LiteralNone, line))
    /\ pc' = "done"
    /\ UNCHANGED <<caller, source, start, current, line, spans>>

\* scan_token: advance and the match on the character.
scan_token ==
    /\ pc = "scan_token"
    /\ LET a == advance(source, current)
           c == a.c
       IN  IF a.panic THEN panic
           ELSE IF c \in SingleChars THEN add_token(single_type(c), a.current)
           ELSE IF c \in EqualChars
                THEN LET m == match_char(source, a.current, "=")
                     IN  IF m.panic THEN panic
                         ELSE add_token(IF m.is_match THEN two_char_type(c)
                                        ELSE one_char_type(c), m.current)
           ELSE IF c = "/"
                THEN LET m == match_char(source, a.current, "/")
                     IN  IF m.panic THEN panic
                         ELSE IF m.is_match
                              THEN /\ current' = m.current
                                   /\ pc' = "comment"
                                   /\ UNCHANGED <<caller, source, tokens, start, line, spans>>
                              ELSE add_token("Slash", m.current)
           ELSE IF c \in {" ", "\r", "\t"}
                THEN /\ current' = a.current
                     /\ pc' = "scan_tokens"
                     /\ UNCHANGED <<caller, source, tokens, start, line, spans>>
           ELSE IF c = "\n"
                THEN /\ current' = a.current
                     /\ line' = line + 1
                     /\ pc' = "scan_tokens"
                     /\ UNCHANGED <<caller, source, tokens, start, spans>>
           ELSE IF c = "\""
                THEN /\ current' = a.current
                     /\ pc' = "string"
                     /\ UNCHANGED <<caller, source, tokens, start, line, spans>>
           ELSE IF is_digit(c)
                THEN /\ current' = a.current
                     /\ pc' = "number"
                     /\ UNCHANGED <<caller, source, tokens, start, line, spans>>
           ELSE IF is_alpha(c)
                THEN /\ current' = a.current
                     /\ pc' = "identifier"
                     /\ UNCHANGED <<caller, source, tokens, start, line, spans>>
           ELSE add_token("Unknown", a.current)

comment_EatsNewline ==
    /\ pc = "comment"
    /\ LET p == peek(source, current)
       IN  IF p = PANIC THEN panic
           ELSE IF ~is_at_end(source, current)
                THEN /\ current' = advance(source, current).current
                     /\ pc' = IF p = "\n" THEN "scan_tokens" ELSE "comment"
                     /\ UNCHANGED <<caller, source, tokens, start, line, spans>>
                ELSE /\ pc' = "scan_tokens"
                     /\ UNCHANGED <<caller, source, tokens, start, current, line, spans>>

\* The comment loop of scan_token: one test of the while condition, and
\* one advance when it holds.
comment ==
    /\ pc = "comment"
    /\ LET p == peek(source, current)
       IN  IF p = PANIC THEN panic
           ELSE IF p # "\n" /\ ~is_at_end(source, current)
                THEN /\ current' = advance(source, current).current
                     /\ UNCHANGED <<caller, source, tokens, start, line, pc, spans>>
                ELSE /\ pc' = "scan_tokens"
                     /\ UNCHANGED <<caller, source, tokens, start, current, line, spans>>

\* identifier: one turn of its while loop, or the lookup and add_token.
identifier ==
    /\ pc = "identifier"
    /\ LET p == peek(source, current)
       IN  IF p = PANIC THEN panic
           ELSE IF is_alpha_numeric(p)
                THEN /\ current' = advance(source, current).current
                     /\ UNCHANGED <<caller, source, tokens, start, line, pc, spans>>
                ELSE LET text == slice(source, start, current)
                     IN  IF ~text.ok THEN panic
                         ELSE add_token(keywords_get(text.text), current)

number_end ==
    LET text == slice(source, start, current)
    IN  IF ~text.ok THEN panic
        ELSE add_token_with_literal("Number",
                                    LiteralNumber(parse_f64(text.text)), current)

\* number: one turn of the first while loop, or the test for a fraction.
number ==
    /\ pc = "number"
    /\ LET p == peek(source, current)
       IN  IF p = PANIC THEN panic
           ELSE IF is_digit(p)
                THEN /\ current' = advance(source, current).current
                     /\ UNCHANGED <<caller, source, tokens, start, line, pc, spans>>
                ELSE IF p = "."
                     THEN LET n == peek_next(source, current)
                          IN  IF n = PANIC THEN panic
                              ELSE IF is_digit(n)
                                   THEN /\ current' = advance(source, current).current
                                        /\ pc' = "number_fraction"
                                        /\ UNCHANGED <<caller, source, tokens, start, line, spans>>
                                   ELSE number_end
                     ELSE number_end

\* number: one turn of the while loop over the fraction, or the parse and
\* add_token_with_literal.
number_fraction ==
    /\ pc = "number_fraction"
    /\ LET p == peek(source, current)
       IN  IF p = PANIC THEN panic
           ELSE IF is_digit(p)
                THEN /\ current' = advance(source, current).current
                     /\ UNCHANGED <<caller, source, tokens, start, line, pc, spans>>
                ELSE number_end

string_loop_NoLine ==
    /\ pc = "string"
    /\ LET p == peek(source, current)
       IN  /\ p # PANIC
           /\ p # "\"" /\ ~is_at_end(source, current)
           /\ current' = advance(source, current).current
           /\ UNCHANGED <<caller, source, tokens, start, line, pc, spans>>

\* string: one turn of its while loop.
string_loop ==
    /\ pc = "string"
    /\ LET p == peek(source, current)
       IN  /\ p # PANIC
           /\ p # "\"" /\ ~is_at_end(source, current)
           /\ line' = IF p = "\n" THEN line + 1 ELSE line
           /\ current' = advance(source, current).current
           /\ UNCHANGED <<caller, source, tokens, start, pc, spans>>

string_end_DropUnterminated ==
    /\ pc = "string"
    /\ LET p == peek(source, current)
       IN  IF p = PANIC THEN panic
           ELSE /\ ~(p # "\"" /\ ~is_at_end(source, current))
                /\ IF is_at_end(source, current)
                   THEN /\ pc' = "scan_tokens"
                        /\ UNCHANGED <<caller, source, tokens, start, current, line, spans>>
                   ELSE LET a == advance(source, current)
                            value == slice(source, start + 1, a.current - 1)
                        IN  IF a.panic \/ ~value.ok THEN panic
                            ELSE add_token_with_literal("String",
                                     LiteralString(value.text), a.current)

string_end_KeepQuotes ==
    /\ pc = "string"
    /\ LET p == peek(source, current)
       IN  IF p = PANIC THEN panic
           ELSE /\ ~(p # "\"" /\ ~is_at_end(source, current))
                /\ IF is_at_end(source, current)
                   THEN add_token("Unknown", current)
                   ELSE LET a == advance(source, current)
                            value == slice(source, start, a.current)
                        IN  IF a.panic \/ ~value.ok THEN panic
                            ELSE add_token_with_literal("String",
                                     LiteralString(value.text), a.current)

\* string after the loop: the unterminated string, or the closing quote
\* and the String token.
string_end ==
    /\ pc = "string"
    /\ LET p == peek(source, current)
       IN  IF p = PANIC THEN panic
           ELSE /\ ~(p # "\"" /\ ~is_at_end(source, current))
                /\ IF is_at_end(source, current)
                   THEN add_token("Unknown", current)
                   ELSE LET a == advance(source, current)
                            value == slice(source, start + 1, a.current - 1)
                        IN  IF a.panic \/ ~value.ok THEN panic
                            ELSE add_token_with_literal("String",
                                     LiteralString(value.text), a.current)

Next ==
    \/ scan_tokens_loop
    \/ scan_tokens_eof
    \/ scan_token
    \/ comment
    \/ identifier
    \/ number
    \/ number_fraction
    \/ string_loop
    \/ string_end

Spec == Init /\ [][Next]_vars

\* The scan is one sequential call: a step that can be taken is taken.
FairSpec == Spec /\ WF_vars(Next)

(***************************************************************************)
(* A caller that keeps the Scanner and calls scan_tokens on it again:      *)
(* scan_tokens takes &mut self and returns a reference to self.tokens, so  *)
(* the Scanner outlives the call with its fields as the call left them.    *)
(***************************************************************************)
MaxCalls == 3

RepeatChars == {"/", "\"", "1", ".", "o", "\n"}

RepeatSources == Texts(RepeatChars, MaxLen)

RepeatInit ==
    /\ source \in RepeatSources
    /\ tokens = <<>>
    /\ start = 0
    /\ current = 0
    /\ line = 1
    /\ pc = "scan_tokens"
    /\ spans = <<>>
    /\ calls = 1
    /\ NoHost

\* scan_tokens is entered again after it has returned.
scan_tokens_again ==
    /\ pc = "done"
    /\ host_pc = "none"
    /\ calls < MaxCalls
    /\ calls' = calls + 1
    /\ pc' = "scan_tokens"
    /\ UNCHANGED <<source, tokens, start, current, line, spans>>
    /\ UNCHANGED <<had_error, host_pc, tok, stderr, entered, nlines>>

RepeatNext ==
    \/ Next
    \/ scan_tokens_again

RepeatSpec == RepeatInit /\ [][RepeatNext]_vars

(***************************************************************************)
(* The host, src/src/lox.rs.  Lox::new gives had_error = false; run_file   *)
(* and run_prompt consume the Lox and are its two ways in.  run builds a   *)
(* Scanner for the text it is given, lets it scan, and walks the tokens;   *)
(* the Scanner is a local of run and is gone when run returns.  What run   *)
(* prints to standard output is left out (Token::to_string is not part of  *)
(* the sources); standard error is the sequence of the line numbers of     *)
(* the messages written by report.  entered is the frame of run: who       *)
(* called it, and had_error and the length of stderr as run found them.    *)
(***************************************************************************)
MaxLines == 2

MaxLineLen == 3

HostChars == {"@", "\"", "/", "1", ".", "o", "\n", NonAscii}

\* What fs::read and String::from_utf8 can give run_file.
Files == Texts(HostChars, MaxLineLen)

ReadResults ==
    {[kind |-> "Err", text |-> <<>>], [kind |-> "NotUtf8", text |-> <<>>]}
        \cup {[kind |-> "Ok", text |-> t] : t \in Files}

\* What read_line can give: an error, nothing at end of input, or the text
\* up to and including the next newline (up to end of input if there is none).
ReadLines ==
    {t \in Files : t # <<>> /\ \A i \in 1..(Len(t) - 1) : t[i] # "\n"}

LineResults ==
    {[kind |-> "Err", text |-> <<>>], [kind |-> "Ok", text |-> <<>>]}
        \cup {[kind |-> "Ok", text |-> t] : t \in ReadLines}

HostInit ==
    /\ source = <<>>
    /\ tokens = <<>>
    /\ start = 0
    /\ current = 0
    /\ line = 1
    /\ pc = "none"
    /\ spans = <<>>
    /\ calls = 0
    /\ had_error = FALSE
    /\ host_pc \in {"run_file", "run_prompt"}
    /\ tok = 0
    /\ stderr = <<>>
    /\ entered = [by |-> "none", had_error |-> FALSE, stderr |-> 0]
    /\ nlines = 0

\* The host function ends at p (an Err or Ok result, a panic) without a scan.
host_stop(p) ==
    /\ host_pc' = p
    /\ UNCHANGED <<source, tokens, start, current, line, pc, spans>>
    /\ UNCHANGED <<calls, had_error, tok, stderr, entered, nlines>>

\* run up to the call of scan_tokens: exit(65) if had_error is set, or else
\* Scanner::new(source) and the call.
run(text, by) ==
    /\ entered' = [by |-> by, had_error |-> had_error, stderr |-> Len(stderr)]
    /\ IF had_error
       THEN /\ host_pc' = "exit65"
            /\ UNCHANGED <<source, tokens, start, current, line, pc, spans, calls>>
       ELSE /\ host_pc' = "scan"
            /\ source' = text
            /\ tokens' = <<>>
            /\ start' = 0
            /\ current' = 0
            /\ line' = 1
            /\ pc' = "scan_tokens"
            /\ spans' = <<>>
            /\ calls' = 1
    /\ UNCHANGED <<had_error, tok, stderr>>

run_file ==
    /\ host_pc = "run_file"
    /\ \E r \in ReadResults :
          IF r.kind = "Err" THEN host_stop("err")
          ELSE IF r.kind = "NotUtf8" THEN host_stop("panic")
          ELSE run(r.text, "run_file") /\ UNCHANGED nlines

\* run_prompt, one turn of its loop up to the call of run.
run_prompt ==
    /\ host_pc = "run_prompt"
    /\ \E r \in LineResults :
          /\ r.text = <<>> \/ nlines < MaxLines
          /\ IF r.kind = "Err" THEN host_stop("err")
             ELSE IF r.text = <<>> THEN host_stop("ok")
             ELSE run(r.text, "run_prompt") /\ nlines' = nlines + 1

\* run: scan_tokens has returned and the for loop over the tokens begins.
run_tokens ==
    /\ host_pc = "scan"
    /\ pc = "done"
    /\ host_pc' = "for"
    /\ tok' = 1
    /\ UNCHANGED <<source, tokens, start, current, line, pc, spans>>
    /\ UNCHANGED <<calls, had_error, stderr, entered, nlines>>

report_NoFlag(ln) ==
    /\ stderr' = Append(stderr, ln)
    /\ UNCHANGED had_error

report(ln) ==
    /\ stderr' = Append(stderr, ln)
    /\ had_error' = TRUE

error(ln) == report(ln)

\* run: one turn of the for loop.
run_for ==
    /\ host_pc = "for"
    /\ tok <= Len(tokens)
    /\ IF tokens[tok].token_type = "Unknown"
       THEN error(tokens[tok].line)
       ELSE UNCHANGED <<had_error, stderr>>
    /\ tok' = tok + 1
    /\ UNCHANGED <<source, tokens, start, current, line, pc, spans>>
    /\ UNCHANGED <<calls, host_pc, entered, nlines>>

\* run returns, to the Ok(()) of run_file or into the loop of run_prompt.
run_return ==
    /\ host_pc = "for"
    /\ tok > Len(tokens)
    /\ host_pc' = IF entered.by = "run_file" THEN "ok" ELSE "returned"
    /\ source' = <<>>
    /\ tokens' = <<>>
    /\ start' = 0
    /\ current' = 0
    /\ line' = 1
    /\ pc' = "none"
    /\ spans' = <<>>
    /\ calls' = 0
    /\ tok' = 0
    /\ UNCHANGED <<had_error, stderr, entered, nlines>>

run_prompt_reset_Skipped ==
    /\ host_pc = "returned"
    /\ host_pc' = "run_prompt"
    /\ UNCHANGED <<source, tokens, start, current, line, pc, spans>>
    /\ UNCHANGED <<calls, had_error, tok, stderr, entered, nlines>>

\* run_prompt after run: self.had_error = false, and round the loop.
run_prompt_reset ==
    /\ host_pc = "returned"
    /\ had_error' = FALSE
    /\ host_pc' = "run_prompt"
    /\ UNCHANGED <<source, tokens, start, current, line, pc, spans>>
    /\ UNCHANGED <<calls, tok, stderr, entered, nlines>>

HostNext ==
    \/ run_file
    \/ run_prompt
    \/ Next
    \/ run_tokens
    \/ run_for
    \/ run_return
    \/ run_prompt_reset

HostSpec == HostInit /\ [][HostNext]_vars

(***************************************************************************)
(* Vocabulary of the properties.  Positions are 1-based indices of source; *)
(* spans[k] = <<a, b>> puts token k on the characters a+1 .. b.            *)
(***************************************************************************)
Returned == pc = "done"

SpanFrom(k) == spans[k][1]
SpanTo(k) == spans[k][2]

Covered(i) == \E k \in 1..Len(spans) : SpanFrom(k) < i /\ i <= SpanTo(k)

\* Position i lies in a `//` comment: behind two slashes that belong to no
\* token, with no newline in between.
InComment(i) ==
    \E j \in 1..i :
        /\ j + 1 <= Len(source)
        /\ source[j] = "/" /\ source[j + 1] = "/"
        /\ ~Covered(j) /\ ~Covered(j + 1)
        /\ \A m \in j..i : source[m] # "\n"

Discarded(i) == source[i] \in {" ", "\t", "\r", "\n"} \/ InComment(i)

\* The newline characters among the first n characters of source.
NewlinesBefore(n) == Cardinality({i \in 1..n : source[i] = "\n"})

\* The source text put together again from the lexemes of tokens k.. and the
\* text between them, starting behind position pos.
RECURSIVE Rebuild(_, _)
Rebuild(k, pos) ==
    IF k > Len(spans) THEN SubSeq(source, pos + 1, Len(source))
    ELSE SubSeq(source, pos + 1, SpanFrom(k)) \o tokens[k].lexeme
             \o Rebuild(k + 1, SpanTo(k))

(***************************************************************************)
(* C1: the sequence scan_tokens returns on a fresh Scanner holds exactly   *)
(* one Eof token, as its last element; for the empty source it is the Eof  *)
(* token alone, with empty lexeme and line 1.                              *)
(***************************************************************************)
C1_ExactlyOneEofLast ==
    Returned =>
        /\ Len(tokens) >= 1
        /\ tokens[Len(tokens)].token_type = "Eof"
        /\ \A i \in 1..(Len(tokens) - 1) : tokens[i].token_type # "Eof"
        /\ source = <<>> => tokens = <<Token("Eof", <<>>, LiteralNone, 1)>>

C1_Witness == Returned /\ Len(source) = MaxLen /\ Len(tokens) >= 3

(***************************************************************************)
(* C2: for every source text the scan terminates: the cursor never moves   *)
(* back, every turn of the top-level loop ends with the cursor beyond      *)
(* where the turn began, and the Eof token is eventually appended.         *)
(***************************************************************************)
C2_TerminatesWithEof ==
    /\ [][current' >= current]_vars
    /\ [][pc # "scan_tokens" /\ pc' = "scan_tokens" => current' > start']_vars
    /\ <>(Returned /\ tokens # <<>> /\ tokens[Len(tokens)].token_type = "Eof")

(***************************************************************************)
(* C3: for every source text, text with characters outside ASCII          *)
(* included, the scan never fails hard.                                    *)
(***************************************************************************)
C3_NoHardFailure == pc # "panic"

(***************************************************************************)
(* C4: in the returned sequence the lexemes are the texts of spans of the  *)
(* source that do not overlap and come in increasing position; every       *)
(* character outside the spans is a space, tab, carriage return or newline *)
(* or lies in a // comment; lexemes and discarded text, in order, give the *)
(* source back.                                                            *)
(***************************************************************************)
C4_LexemesPartitionSource ==
    Returned =>
        /\ Len(spans) = Len(tokens) - 1
        /\ \A k \in 1..Len(spans) :
              /\ SpanFrom(k) < SpanTo(k) /\ SpanTo(k) <= Len(source)
              /\ tokens[k].lexeme = SubSeq(source, SpanFrom(k) + 1, SpanTo(k))
        /\ \A k \in 1..(Len(spans) - 1) : SpanTo(k) <= SpanFrom(k + 1)
        /\ \A i \in 1..Len(source) : ~Covered(i) => Discarded(i)
        /\ Rebuild(1, 0) = source

C4_Witness ==
    /\ Returned
    /\ Len(spans) >= 2
    /\ SpanTo(1) < SpanFrom(2)
    /\ SpanTo(2) < Len(source)

(***************************************************************************)
(* C5: the line of every returned token but Eof is the line of its first   *)
(* character: 1 plus the newlines before the token's start.                *)
(***************************************************************************)
C5_LineOfFirstCharacter ==
    Returned =>
        \A k \in 1..Len(spans) : tokens[k].line = 1 + NewlinesBefore(SpanFrom(k))

(***************************************************************************)
(* C6: the lines of the returned tokens never decrease from the first      *)
(* token to Eof, and no step of the scan decrements the line counter.      *)
(***************************************************************************)
C6_LinesNeverDecrease ==
    /\ [](Returned =>
            \A i \in 1..Len(tokens) : \A j \in i..Len(tokens) :
                tokens[i].line <= tokens[j].line)
    /\ [][line' >= line]_vars

C6_Witness ==
    /\ Returned
    /\ Len(tokens) >= 3
    /\ tokens[1].line < tokens[2].line
    /\ tokens[2].line < tokens[Len(tokens)].line

(***************************************************************************)
(* C7: a token that starts at one of ! = < > is the two-character kind,    *)
(* spanning both characters, when the next character exists and is =, and  *)
(* the one-character kind, spanning that character alone, otherwise; so    *)
(* === gives EqualEqual then Equal, no two-character operator is split,    *)
(* and in a text of these characters every character is in one token.      *)
(***************************************************************************)
OneCharTypes == {"Bang", "Equal", "Less", "Greater"}
TwoCharTypes == {"BangEqual", "EqualEqual", "LessEqual", "GreaterEqual"}

C7_OperatorLookahead ==
    Returned =>
        /\ \A k \in 1..Len(spans) :
              LET a == SpanFrom(k)
                  c == source[a + 1]
              IN  /\ c \in EqualChars =>
                        IF a + 2 <= Len(source) /\ source[a + 2] = "="
                        THEN /\ tokens[k].token_type = two_char_type(c)
                             /\ tokens[k].lexeme = <<c, "=">>
                             /\ SpanTo(k) = a + 2
                        ELSE /\ tokens[k].token_type = one_char_type(c)
                             /\ tokens[k].lexeme = <<c>>
                             /\ SpanTo(k) = a + 1
                  /\ tokens[k].token_type \in OneCharTypes \cup TwoCharTypes
                        => c \in EqualChars
        /\ \A k \in 1..(Len(spans) - 1) :
              (tokens[k].token_type \in OneCharTypes /\ SpanFrom(k + 1) = SpanTo(k))
                  => source[SpanFrom(k + 1) + 1] # "="
        /\ source = <<"=", "=", "=">> =>
              /\ Len(tokens) = 3
              /\ tokens[1].token_type = "EqualEqual"
              /\ tokens[2].token_type = "Equal"
        /\ (\A i \in 1..Len(source) : source[i] \in EqualChars) =>
              \A i \in 1..Len(source) :
                  Cardinality({k \in 1..Len(spans) :
                                  SpanFrom(k) < i /\ i <= SpanTo(k)}) = 1

C7_Witness ==
    /\ Returned
    /\ Len(spans) >= 2
    /\ tokens[1].token_type \in TwoCharTypes
    /\ tokens[2].token_type \in OneCharTypes
    /\ SpanFrom(2) = SpanTo(1)
    /\ SpanTo(2) < Len(source)

(***************************************************************************)
(* C8: the lexeme of a Number token is a maximal run of digits, then, only *)
(* when a `.` and a digit follow, the `.` and a maximal run of digits; a   *)
(* `.` behind the digits that no digit follows is left and is the Dot      *)
(* token right after the Number; the lexeme never starts with `.` or `-`.  *)
(***************************************************************************)
CharAt(i) == IF i >= 1 /\ i <= Len(source) THEN source[i] ELSE NUL

\* The end of the maximal run of digits that starts behind position a.
RECURSIVE DigitRunEnd(_)
DigitRunEnd(a) == IF CharAt(a + 1) \in Digits THEN DigitRunEnd(a + 1) ELSE a

NumberEnd(a) ==
    LET d == DigitRunEnd(a)
    IN  IF CharAt(d + 1) = "." /\ CharAt(d + 2) \in Digits
        THEN DigitRunEnd(d + 1)
        ELSE d

C8_NumberLexeme ==
    Returned =>
        \A k \in 1..Len(spans) :
            LET a == SpanFrom(k)
                b == SpanTo(k)
            IN  /\ tokens[k].token_type = "Number" <=> source[a + 1] \in Digits
                /\ tokens[k].token_type = "Number" =>
                      /\ b = NumberEnd(a)
                      /\ tokens[k].lexeme = SubSeq(source, a + 1, b)
                      /\ tokens[k].lexeme[1] \notin {".", "-"}
                      /\ CharAt(b + 1) \notin Digits
                      /\ CharAt(b + 1) = "." =>
                            /\ k + 1 <= Len(spans)
                            /\ tokens[k + 1].token_type = "Dot"
                            /\ SpanFrom(k + 1) = b /\ SpanTo(k + 1) = b + 1

C8_Witness ==
    /\ Returned
    /\ Len(spans) >= 2
    /\ tokens[1].token_type = "Number"
    /\ \E i \in 1..Len(tokens[1].lexeme) : tokens[1].lexeme[i] = "."
    /\ tokens[2].token_type = "Dot"
    /\ SpanFrom(2) = SpanTo(1)

(***************************************************************************)
(* C9: the lexeme of a token that starts at a letter or underscore is the  *)
(* maximal run of letters, digits and underscores from there; its kind is  *)
(* the reserved word's kind exactly when the whole lexeme is one of the 16 *)
(* reserved words, and Identifier otherwise.                               *)
(***************************************************************************)
RECURSIVE WordRunEnd(_)
WordRunEnd(a) ==
    IF CharAt(a + 1) \in LowerCase \cup UpperCase \cup Digits \cup {"_"}
    THEN WordRunEnd(a + 1)
    ELSE a

ReservedKinds ==
    {"And", "Class", "Else", "False", "For", "Fun", "If", "Nil", "Or",
     "Print", "Return", "Super", "This", "True", "Var", "While"}

C9_IdentifierOrKeyword ==
    /\ Cardinality(keywords) = Cardinality(ReservedKinds)
    /\ {kw[2] : kw \in keywords} = ReservedKinds
    /\ Returned =>
          \A k \in 1..Len(spans) :
              LET a == SpanFrom(k)
                  text == tokens[k].lexeme
                  kind == tokens[k].token_type
              IN  /\ kind \in ReservedKinds \cup {"Identifier"}
                        <=> source[a + 1] \in LowerCase \cup UpperCase \cup {"_"}
                  /\ kind \in ReservedKinds \cup {"Identifier"} =>
                        /\ SpanTo(k) = WordRunEnd(a)
                        /\ text = SubSeq(source, a + 1, WordRunEnd(a))
                        /\ kind \in ReservedKinds <=> \E kw \in keywords : kw[1] = text
                        /\ \A kw \in keywords : kw[1] = text => kind = kw[2]
                        /\ text = <<"o", "r">> => kind = "Or"
                        /\ text = <<"i", "f">> => kind = "If"
                        /\ text = <<"f", "o", "r">> => kind = "For"

C9_Witness ==
    /\ Returned
    /\ Len(spans) = 1
    /\ tokens[1].token_type = "Identifier"
    /\ \E kw \in keywords :
          IsPrefix(kw[1], tokens[1].lexeme) /\ kw[1] # tokens[1].lexeme

(***************************************************************************)
(* C10: when the input ends inside a string literal, the literal gives one *)
(* Unknown token whose lexeme is the source from the opening quote to the  *)
(* end of input and no String token; the cursor is left at the length of   *)
(* the source, and Eof is the only token behind the Unknown token.         *)
(***************************************************************************)
NoQuoteBehind(i) == \A j \in (i + 1)..Len(source) : source[j] # "\""

C10_UnterminatedString ==
    Returned =>
        /\ \A k \in 1..Len(spans) :
              (source[SpanFrom(k) + 1] = "\"" /\ NoQuoteBehind(SpanFrom(k) + 1)) =>
                  /\ tokens[k].token_type = "Unknown"
                  /\ tokens[k].lexeme = SubSeq(source, SpanFrom(k) + 1, Len(source))
                  /\ SpanTo(k) = Len(source)
                  /\ current = Len(source)
                  /\ k = Len(spans)
                  /\ Len(tokens) = k + 1
                  /\ tokens[k + 1].token_type = "Eof"
        /\ (source # <<>> /\ source[1] = "\"" /\ NoQuoteBehind(1)) =>
              /\ Len(tokens) = 2
              /\ tokens[1].token_type = "Unknown"
              /\ tokens[1].lexeme = source
              /\ tokens[2].token_type = "Eof"
              /\ current = Len(source)

C10_Witness ==
    /\ Returned
    /\ Len(spans) = 2
    /\ tokens[2].token_type = "Unknown"
    /\ tokens[2].lexeme[1] = "\""
    /\ Len(tokens[2].lexeme) >= 2

(***************************************************************************)
(* C11: a string literal that is closed gives one String token: its lexeme *)
(* runs from the opening quote to the first quote behind it, its literal   *)
(* value is the text strictly between the two, verbatim (a backslash does  *)
(* not escape a quote), and the line counter has counted every newline of  *)
(* the literal once when the token is pushed.                              *)
(***************************************************************************)
FirstQuoteBehind(i) ==
    CHOOSE q \in (i + 1)..Len(source) :
        source[q] = "\"" /\ \A j \in (i + 1)..(q - 1) : source[j] # "\""

C11_TerminatedString ==
    Returned =>
        /\ \A k \in 1..Len(spans) :
              LET a == SpanFrom(k) + 1
              IN  /\ (source[a] = "\"" /\ ~NoQuoteBehind(a)) =>
                        LET q == FirstQuoteBehind(a)
                        IN  /\ tokens[k].token_type = "String"
                            /\ SpanTo(k) = q
                            /\ tokens[k].lexeme = SubSeq(source, a, q)
                            /\ tokens[k].literal =
                                   LiteralString(SubSeq(source, a + 1, q - 1))
                            /\ tokens[k].line = 1 + NewlinesBefore(q)
                  /\ tokens[k].token_type = "String" =>
                        source[a] = "\"" /\ ~NoQuoteBehind(a)
        /\ (source # <<>> /\ source[1] = "\"" /\ ~NoQuoteBehind(1)) =>
              LET q == FirstQuoteBehind(1)
              IN  tokens[1] = Token("String", SubSeq(source, 1, q),
                                    LiteralString(SubSeq(source, 2, q - 1)),
                                    1 + NewlinesBefore(q))

C11_Witness ==
    /\ Returned
    /\ Len(tokens) = 2
    /\ tokens[1].token_type = "String"
    /\ tokens[1].literal = LiteralString(<<"\\", "\n">>)
    /\ tokens[1].line = 2

(***************************************************************************)
(* A reading of the source on its own: the mode in which the character at  *)
(* position i is met.  A quote met in code opens a string, the next quote  *)
(* closes it; two slashes met in code open a comment, which ends before    *)
(* the next newline.                                                       *)
(***************************************************************************)
RECURSIVE ModeAt(_)
ModeAt(i) ==
    IF i <= 1 THEN "code"
    ELSE LET m == ModeAt(i - 1)
             c == source[i - 1]
         IN  IF m = "code"
             THEN IF c = "\"" THEN "string"
                  ELSE IF c = "/" /\ CharAt(i) = "/" THEN "comment"
                  ELSE "code"
             ELSE IF m = "string"
             THEN IF c = "\"" THEN "code" ELSE "string"
             ELSE IF CharAt(i) = "\n" THEN "code" ELSE "comment"

\* Position i holds a character of a comment, its two slashes included.
CommentChar(i) ==
    \/ ModeAt(i) = "comment"
    \/ ModeAt(i) = "code" /\ source[i] = "/" /\ CharAt(i + 1) = "/"

(***************************************************************************)
(* C12: the characters of a // comment, up to but not including the next   *)
(* newline or the end of input, give no token; the comment loop leaves the *)
(* newline to the next turn, which counts it, so a token behind a comment  *)
(* carries a later line; a / that no / follows gives one Slash token.      *)
(***************************************************************************)
C12_CommentDiscarded ==
    /\ [](Returned =>
            /\ \A i \in 1..Len(source) :
                  /\ CommentChar(i) => ~Covered(i) /\ source[i] # "\n"
                  /\ (ModeAt(i) = "code" /\ source[i] = "/" /\ CharAt(i + 1) # "/") =>
                        \E k \in 1..Len(spans) :
                            /\ SpanFrom(k) = i - 1 /\ SpanTo(k) = i
                            /\ tokens[k] = Token("Slash", <<"/">>, LiteralNone,
                                                 1 + NewlinesBefore(i))
                            /\ \A n \in 1..Len(spans) : SpanFrom(n) = i - 1 => n = k
            /\ \A k \in 1..Len(spans) :
                  /\ tokens[k].token_type = "Slash" => source[SpanFrom(k) + 1] = "/"
                  /\ \A i \in 1..SpanFrom(k) :
                        CommentChar(i) =>
                            /\ \E n \in (i + 1)..SpanFrom(k) : source[n] = "\n"
                            /\ tokens[k].line = 1 + NewlinesBefore(SpanTo(k))
            /\ source = <<"/", "/", "\n", "1">> =>
                  /\ Len(tokens) = 2
                  /\ tokens[1].token_type = "Number" /\ tokens[1].line = 2)
    /\ [][pc = "comment" =>
            /\ tokens' = tokens /\ line' = line /\ start' = start
            /\ pc' = "scan_tokens" =>
                  /\ current' = current
                  /\ CharAt(current + 1) = "\n" \/ current >= Len(source)]_vars

C12_Witness ==
    /\ Returned
    /\ Len(spans) = 1
    /\ CommentChar(1) /\ CommentChar(2)
    /\ SpanFrom(1) = 3
    /\ tokens[1].line = 2

(***************************************************************************)
(* C13: on ASCII text the scan never stops at an error: every character    *)
(* met in code that is no operator, digit, letter, underscore, quote or    *)
(* whitespace gives one Unknown token of that one character, everything    *)
(* behind it is still scanned, and the Unknown tokens number the unknown   *)
(* characters outside strings and comments, plus one when the source ends  *)
(* inside a string.                                                        *)
(***************************************************************************)
IsAscii(s) == \A i \in 1..Len(s) : s[i] # NonAscii

Recognised ==
    SingleChars \cup EqualChars \cup Digits \cup LowerCase \cup UpperCase
        \cup {"/", "_", "\"", " ", "\r", "\t", "\n"}

UnknownOutside(i) == ModeAt(i) = "code" /\ source[i] \notin Recognised

C13_ErrorsDoNotStopTheScan ==
    IsAscii(source) =>
        /\ pc # "panic"
        /\ Returned =>
              /\ \A i \in 1..Len(source) :
                    /\ UnknownOutside(i) =>
                          \E k \in 1..Len(spans) :
                              /\ SpanFrom(k) = i - 1 /\ SpanTo(k) = i
                              /\ tokens[k].token_type = "Unknown"
                              /\ tokens[k].lexeme = <<source[i]>>
                    /\ (ModeAt(i) = "code" /\ ~CommentChar(i)
                            /\ source[i] \notin {" ", "\r", "\t", "\n"}) =>
                          Cardinality({k \in 1..Len(spans) :
                                          SpanFrom(k) < i /\ i <= SpanTo(k)}) = 1
              /\ Cardinality({k \in 1..Len(tokens) : tokens[k].token_type = "Unknown"})
                    = Cardinality({i \in 1..Len(source) : UnknownOutside(i)})
                          + (IF ModeAt(Len(source) + 1) = "string" THEN 1 ELSE 0)

C13_Witness ==
    /\ Returned
    /\ Len(spans) = 3
    /\ tokens[1].token_type = "Unknown" /\ tokens[1].lexeme = <<"@">>
    /\ tokens[2].token_type = "LeftParen"
    /\ tokens[3].token_type = "Unknown" /\ tokens[3].lexeme[1] = "\""

(***************************************************************************)
(* C14: a token carries a literal value exactly when its kind is String or *)
(* Number: Literal::String on String, Literal::Number on Number, and       *)
(* Literal::None on every other token, Unknown and Eof included.           *)
(***************************************************************************)
C14_LiteralOnlyOnStringAndNumber ==
    \A k \in 1..Len(tokens) :
        tokens[k].literal.kind =
            IF tokens[k].token_type \in {"String", "Number"}
            THEN tokens[k].token_type
            ELSE "None"

C14_Witness ==
    /\ Returned
    /\ \E k \in 1..Len(tokens) : tokens[k].literal.kind = "String"
    /\ \E k \in 1..Len(tokens) : tokens[k].literal.kind = "Number"
    /\ \E k \in 1..Len(tokens) : tokens[k].token_type \in {"Identifier", "Unknown"}

(***************************************************************************)
(* C16: on ASCII text 0 <= start <= current <= length(source) holds in     *)
(* every state of the scan.                                                *)
(***************************************************************************)
C16_CursorWithinSource ==
    IsAscii(source) =>
        /\ 0 <= start
        /\ start <= current
        /\ current <= len(source)
        /\ len(source) = Len(source)

C16_Witness ==
    /\ pc = "string"
    /\ 0 < start
    /\ start + 1 < current
    /\ current = len(source)

(***************************************************************************)
(* C17: where the scan calls them, peek and peek_next return the sentinel  *)
(* when the character they inspect lies at or past the end of the source,  *)
(* and match_char moves the cursor by one and reports true exactly when    *)
(* the character at the cursor exists and is the expected one, leaving the *)
(* cursor where it is otherwise; none of them moves the cursor back.       *)
(***************************************************************************)
PeekSites == {"comment", "string", "identifier", "number", "number_fraction"}

C17_LookaheadPrimitives ==
    /\ pc \in PeekSites =>
          /\ peek(source, current) # PANIC
          /\ current >= Len(source) => peek(source, current) = NUL
          /\ current < Len(source) => peek(source, current) = source[current + 1]
    /\ (pc = "number" /\ peek(source, current) = ".") =>
          /\ peek_next(source, current) # PANIC
          /\ current + 1 >= Len(source) => peek_next(source, current) = NUL
    /\ (pc = "scan_token" /\ CharAt(current + 1) \in EqualChars \cup {"/"}) =>
          \A expected \in {"=", "/"} :
              LET cur == current + 1
                  m == match_char(source, cur, expected)
              IN  /\ ~m.panic
                  /\ m.is_match <=> CharAt(cur + 1) = expected
                  /\ m.current = IF m.is_match THEN cur + 1 ELSE cur

(***************************************************************************)
(* C18: on ASCII text the line of the Eof token is 1 plus the number of    *)
(* newlines of the source, wherever they stand: each is counted once.      *)
(***************************************************************************)
C18_EofLineCountsEveryNewline ==
    (Returned /\ IsAscii(source)) =>
        tokens[Len(tokens)].line = 1 + NewlinesBefore(Len(source))

C18_Witness ==
    /\ Returned
    /\ \E i \in 1..Len(source) : source[i] = "\n" /\ ModeAt(i) = "string"
    /\ \E i \in 1..Len(source) : source[i] = "\n" /\ ModeAt(i) = "code"
    /\ tokens[Len(tokens)].line = 3

(***************************************************************************)
(* C19: the Scanner keeps its token list and cursor between calls of       *)
(* scan_tokens: after n calls the returned sequence ends with n Eof        *)
(* tokens, the tokens before them are those of the first call, and a call  *)
(* after the first consumes no character.                                  *)
(***************************************************************************)
C19_SecondCallAppendsOneEof ==
    /\ [](Returned =>
            /\ Len(tokens) = Len(spans) + calls
            /\ \A k \in 1..Len(tokens) :
                  IF k > Len(spans)
                  THEN tokens[k] = Token("Eof", <<>>, LiteralNone, line)
                  ELSE tokens[k].token_type # "Eof")
    /\ [][(pc = "done" \/ calls > 1) =>
            /\ current' = current
            /\ start' = start
            /\ line' = line
            /\ spans' = spans
            /\ Len(tokens') >= Len(tokens)
            /\ SubSeq(tokens', 1, Len(tokens)) = tokens]_vars

C19_Witness ==
    /\ Returned
    /\ calls = 3
    /\ Len(spans) >= 2
    /\ Len(tokens) = Len(spans) + 3
    /\ tokens[Len(tokens) - 2].token_type = "Eof"

(***************************************************************************)
(* C15: in run the reporter is called once for every Unknown token of the  *)
(* scanned sequence, with the token's line and in token order, and when    *)
(* run returns had_error is true exactly if it was true on entry or the    *)
(* sequence holds an Unknown token.                                        *)
(***************************************************************************)
RECURSIVE UnknownLines(_)
UnknownLines(k) ==
    IF k = 0 THEN <<>>
    ELSE IF tokens[k].token_type = "Unknown"
         THEN Append(UnknownLines(k - 1), tokens[k].line)
         ELSE UnknownLines(k - 1)

C15_ReportPerUnknownToken ==
    /\ [](/\ host_pc = "for" =>
               /\ SubSeq(stderr, entered.stderr + 1, Len(stderr)) = UnknownLines(tok - 1)
               /\ had_error <=> (entered.had_error \/ UnknownLines(tok - 1) # <<>>)
          /\ (host_pc = "returned" \/ (host_pc = "ok" /\ entered.by = "run_file")) =>
               had_error <=> (entered.had_error \/ Len(stderr) > entered.stderr))
    /\ [][(host_pc = "for" /\ host_pc' # "for") =>
               /\ tok = Len(tokens) + 1
               /\ stderr' = stderr
               /\ had_error' = had_error]_vars
    /\ [][host_pc = "scan" => (stderr' = stderr /\ had_error' = had_error)]_vars

C15_Witness ==
    /\ host_pc = "for"
    /\ tok = Len(tokens) + 1
    /\ Len(tokens) = 3
    /\ stderr = <<1, 2>>
    /\ had_error

====
